---------------------------- MODULE Spec2Model ----------------------------
(***************************************************************************)
(* PR Risk Radar: the scan-pr and analyze-pr-performance request handlers  *)
(* (app/main.py), the scoring engine (app/scoring_pr.py), the secret       *)
(* scanner (app/secret_patterns.py) and the GitHub client adapter          *)
(* (app/github.py).                                                        *)
(*                                                                         *)
(* Python str values are sequences of one-character strings, so that       *)
(* startswith, `in`, split, strip, lower and the regular expressions are   *)
(* computed character by character.  Python's None is the token None.      *)
(***************************************************************************)
EXTENDS Integers, Sequences, FiniteSets, TLC

VARIABLES
    \* ---- one HTTP request (scan_pr or analyze_pr_performance) ----
    handler,            \* which endpoint serves the request ("" before it arrives)
    pc,                 \* position of the handler coroutine
    calls,              \* upstream GETs issued by this request, in order
    returned,           \* how many of them have returned an accepted status
    last_status,        \* status code of the latest upstream response (0: none yet)
    prj,                \* PR detail payload (prj / pr_data)
    analyses,           \* analyze_pr_performance: complexity, dependency_changes, file_types
    files_seen,         \* scan_pr: iterations of `for f in files` done
    sensitive_touches, secret_hits, gha_unpinned,
    changes_requested,
    runs_seen,          \* scan_pr: iterations of `for r in runs` done
    ci_failures,
    ci_metrics,         \* analyze_pr_performance: result of get_ci_metrics
    resp,               \* what the framework sends back
    \* ---- direct applications of the pure functions ----
    patch, hits,        \* find_secrets_in_diff_patch(patch) = hits
    line, unpinned,     \* action_unpinned(line) = unpinned
    raw,                \* raw inputs of the scoring block of scan_pr
    signals,            \* the signals dict handed to compute_score
    result,             \* compute_score(signals)
    stage               \* "input", then "signals" (scoring only), then "done"

vars == <<handler, pc, calls, returned, last_status, prj, analyses, files_seen, sensitive_touches,
          secret_hits, gha_unpinned, changes_requested, runs_seen, ci_failures,
          ci_metrics, resp, patch, hits, line, unpinned, raw, signals, result, stage>>

\* locals of scan_pr
scanLocals == <<files_seen, sensitive_touches, secret_hits, gha_unpinned,
                changes_requested, runs_seen, ci_failures>>

\* locals of analyze_pr_performance
perfLocals == <<analyses, ci_metrics>>

httpVars == <<handler, pc, calls, returned, last_status, prj, scanLocals, perfLocals, resp>>

pureVars == <<patch, hits, line, unpinned, raw, signals, result, stage>>

-----------------------------------------------------------------------------
(* Python str primitives                                                   *)

\* Python None, a token that is no character
None == <<"None">>

\* truthiness of an Optional[str]: None and "" are falsy
Truthy(s) == s # None /\ s # <<>>

Digits == {"0", "1", "2", "3", "4", "5", "6", "7", "8", "9"}

UpperCase == {"A", "B", "C", "D", "E", "F", "G", "H", "I", "J", "K", "L", "M",
              "N", "O", "P", "Q", "R", "S", "T", "U", "V", "W", "X", "Y", "Z"}

LowerCase == {"a", "b", "c", "d", "e", "f", "g", "h", "i", "j", "k", "l", "m",
              "n", "o", "p", "q", "r", "s", "t", "u", "v", "w", "x", "y", "z"}

\* characters str.strip() removes
Whitespace == {" ", "\t", "\n", "\r", "\f"}

\* line boundaries of str.splitlines()
LineBreaks == {"\n", "\r", "\f"}

UpperSeq == <<"A", "B", "C", "D", "E", "F", "G", "H", "I", "J", "K", "L", "M", "N", "O", "P", "Q", "R", "S", "T", "U", "V", "W", "X", "Y", "Z">>

LowerSeq == <<"a", "b", "c", "d", "e", "f", "g", "h", "i", "j", "k", "l", "m", "n", "o", "p", "q", "r", "s", "t", "u", "v", "w", "x", "y", "z">>

\* str.lower() on one character
lower_char(c) ==
    IF c \in UpperCase
    THEN LowerSeq[CHOOSE k \in 1..Len(UpperSeq) : UpperSeq[k] = c]
    ELSE c

\* str.lower()
lower(s) == [k \in 1..Len(s) |-> lower_char(s[k])]

\* s.startswith(p)
startswith(s, p) == Len(p) <= Len(s) /\ SubSeq(s, 1, Len(p)) = p

\* s[i:i+len(lit)] == lit, 1-based
LitAt(s, i, lit) == i + Len(lit) - 1 <= Len(s) /\ SubSeq(s, i, i + Len(lit) - 1) = lit

\* sub in s
contains(s, sub) == \E i \in 1..(Len(s) + 1) : LitAt(s, i, sub)

\* n consecutive characters of class cls starting at s[i]
ClassRun(s, i, n, cls) == i + n - 1 <= Len(s) /\ \A k \in i..(i + n - 1) : s[k] \in cls

\* the positions that end a line break of s ("\r\n" is one break, ended by its "\n")
BreakEnds(s) ==
    {i \in 1..Len(s) : s[i] \in LineBreaks /\ ~(s[i] = "\r" /\ i < Len(s) /\ s[i + 1] = "\n")}

\* str.splitlines(): no line for a trailing line break, "\r\n" is one break
splitlines(s) ==
    LET ends == BreakEnds(s)
        \* where the lines start; text after the last break is a line if not empty
        starts == {p \in {1} \cup {e + 1 : e \in ends} : p <= Len(s)}
        nth(k) == CHOOSE p \in starts : Cardinality({q \in starts : q < p}) = k - 1
        stop(p) ==
            IF \E e \in ends : e >= p
            THEN LET e == CHOOSE x \in ends : x >= p /\ \A y \in ends : y >= p => x <= y
                 IN  IF s[e] = "\n" /\ e - 1 >= p /\ s[e - 1] = "\r" THEN e - 2 ELSE e - 1
            ELSE Len(s)
    IN  [k \in 1..Cardinality(starts) |-> SubSeq(s, nth(k), stop(nth(k)))]

RECURSIVE lstrip(_)
lstrip(s) == IF s # <<>> /\ Head(s) \in Whitespace THEN lstrip(Tail(s)) ELSE s

RECURSIVE rstrip(_)
rstrip(s) ==
    IF s # <<>> /\ s[Len(s)] \in Whitespace THEN rstrip(SubSeq(s, 1, Len(s) - 1)) ELSE s

\* str.strip()
strip(s) == rstrip(lstrip(s))

\* line.split('@', 1)[1]: everything after the first sep (sep occurs in s)
AfterFirst(s, sep) ==
    LET i == CHOOSE k \in 1..Len(s) : s[k] = sep /\ \A j \in 1..(k - 1) : s[j] # sep
    IN  SubSeq(s, i + 1, Len(s))

RECURSIVE Join(_, _)
Join(ls, sep) ==
    IF ls = <<>> THEN <<>>
    ELSE IF Len(ls) = 1 THEN ls[1]
    ELSE ls[1] \o sep \o Join(Tail(ls), sep)

\* the sequences over S of length at most n
SeqsUpTo(S, n) == UNION {[1..k -> S] : k \in 0..n}

-----------------------------------------------------------------------------
(* app/secret_patterns.py                                                  *)

AlphaNum == Digits \cup UpperCase \cup LowerCase

\* [0-9A-Z]
AwsClass == Digits \cup UpperCase

\* [0-9A-Za-z-]
SlackClass == AlphaNum \cup {"-"}

\* [0-9A-Za-z\\-_] : inside the class, \\ is a backslash and \\-_ the range
\* from backslash to underscore, so '-' itself is not a member
GoogleClass == AlphaNum \cup {"\\", "]", "^", "_"}

\* AKIA[0-9A-Z]{16}
AwsKeyLen == 16

\* xox[baprs]-[0-9A-Za-z-]{10,48}: a match exists iff 10 class characters follow
SlackMinLen == 10

\* AIza[0-9A-Za-z\\-_]{35}
GoogleKeyLen == 35

KeyKinds == {<<"R", "S", "A">>, <<"D", "S", "A">>, <<"E", "C">>, <<"O", "P", "E", "N", "S", "S", "H">>}

\* pat.search(line) for the pattern at index p of PATTERNS
pat_search(p, s) ==
    CASE p = 1 -> \E i \in 1..Len(s) :
                      LitAt(s, i, <<"A", "K", "I", "A">>) /\ ClassRun(s, i + 4, AwsKeyLen, AwsClass)
      [] p = 2 -> \E k \in KeyKinds :
                      contains(s, <<"-", "-", "-", "-", "-", "B", "E", "G", "I", "N", " ">> \o k \o <<" ", "P", "R", "I", "V", "A", "T", "E", " ", "K", "E", "Y", "-", "-", "-", "-", "-">>)
      [] p = 3 -> \E i \in 1..Len(s) :
                      /\ LitAt(s, i, <<"x", "o", "x">>)
                      /\ i + 3 <= Len(s)
                      /\ s[i + 3] \in {"b", "a", "p", "r", "s"}
                      /\ LitAt(s, i + 4, <<"-">>)
                      /\ ClassRun(s, i + 5, SlackMinLen, SlackClass)
      [] p = 4 -> \E i \in 1..Len(s) :
                      LitAt(s, i, <<"A", "I", "z", "a">>) /\ ClassRun(s, i + 4, GoogleKeyLen, GoogleClass)

\* the compiled patterns, in list order
PATTERNS == <<1, 2, 3, 4>>

\* a scan that does not stop at the first matching pattern
RECURSIVE FirstMatchNoBreak(_, _)
FirstMatchNoBreak(s, k) ==
    IF k > Len(PATTERNS) THEN 0
    ELSE IF pat_search(PATTERNS[k], s) THEN 1 + FirstMatchNoBreak(s, k + 1)
    ELSE FirstMatchNoBreak(s, k + 1)

\* for pat in PATTERNS: if pat.search(line): hits += 1; break
RECURSIVE FirstMatch(_, _)
FirstMatch(s, k) ==
    IF k > Len(PATTERNS) THEN 0
    ELSE IF pat_search(PATTERNS[k], s) THEN 1
    ELSE FirstMatch(s, k + 1)

RECURSIVE ScanLines(_, _)
ScanLines(ls, k) ==
    IF k > Len(ls) THEN 0
    ELSE IF ~startswith(ls[k], <<"+">>) \/ startswith(ls[k], <<"+", "+", "+">>)
    THEN ScanLines(ls, k + 1)
    ELSE FirstMatch(ls[k], 1) + ScanLines(ls, k + 1)

find_secrets_in_diff_patch(p) ==
    IF ~Truthy(p) THEN 0 ELSE ScanLines(splitlines(p), 1)

-----------------------------------------------------------------------------
(* app/main.py: path and workflow helpers                                  *)

SENSITIVE_PATH_HINTS ==
    << <<".", "g", "i", "t", "h", "u", "b", "/", "w", "o", "r", "k", "f", "l", "o", "w", "s", "/">>, <<"D", "o", "c", "k", "e", "r", "f", "i", "l", "e">>, <<"d", "o", "c", "k", "e", "r", "-", "c", "o", "m", "p", "o", "s", "e", ".", "y", "m", "l">>, <<"k", "8", "s", "/">>,
       <<"h", "e", "l", "m", "/">>, <<".", "t", "f">>, <<"t", "e", "r", "r", "a", "f", "o", "r", "m">>, <<"c", "l", "o", "u", "d", "f", "o", "r", "m", "a", "t", "i", "o", "n">>, <<"a", "n", "s", "i", "b", "l", "e", "/">>,
       <<"p", "a", "c", "k", "a", "g", "e", ".", "j", "s", "o", "n">>, <<"y", "a", "r", "n", ".", "l", "o", "c", "k">>, <<"p", "n", "p", "m", "-", "l", "o", "c", "k", ".", "y", "a", "m", "l">>, <<"p", "o", "e", "t", "r", "y", ".", "l", "o", "c", "k">>,
       <<"r", "e", "q", "u", "i", "r", "e", "m", "e", "n", "t", "s", ".", "t", "x", "t">>, <<"b", "u", "i", "l", "d", ".", "g", "r", "a", "d", "l", "e">>, <<"p", "o", "m", ".", "x", "m", "l">>, <<"G", "e", "m", "f", "i", "l", "e", ".", "l", "o", "c", "k">> >>

touched_sensitive_path(filename) ==
    LET fname == lower(filename)
    IN  \E h \in 1..Len(SENSITIVE_PATH_HINTS) : contains(fname, lower(SENSITIVE_PATH_HINTS[h]))

HexDigits == {"0", "1", "2", "3", "4", "5", "6", "7", "8", "9", "a", "b", "c", "d", "e", "f"}

\* length of a commit SHA
ShaLen == 40

\* the comparison without .lower(): only lowercase digits pass
action_unpinned_cased(s) ==
    IF ~contains(s, <<"u", "s", "e", "s", ":">>) THEN FALSE
    ELSE IF ~contains(s, <<"@">>) THEN TRUE
    ELSE LET after == strip(AfterFirst(s, "@"))
         IN  ~(Len(after) >= ShaLen /\ \A k \in 1..ShaLen : after[k] \in HexDigits)

action_unpinned(s) ==
    IF ~contains(s, <<"u", "s", "e", "s", ":">>) THEN FALSE
    ELSE IF ~contains(s, <<"@">>) THEN TRUE
    ELSE LET after == strip(AfterFirst(s, "@"))
         IN  ~(Len(after) >= ShaLen
               /\ \A k \in 1..ShaLen : lower(SubSeq(after, 1, ShaLen))[k] \in HexDigits)

-----------------------------------------------------------------------------
(* app/scoring_pr.py                                                       *)

Min2(a, b) == IF a <= b THEN a ELSE b

Max2(a, b) == IF a >= b THEN a ELSE b

\* int(a / b) for b > 0: Python truncates toward zero
TruncDiv(a, b) == IF a >= 0 THEN a \div b ELSE -((-a) \div b)

\* d.get(k, default)
Get(d, k, default) == IF k \in DOMAIN d THEN d[k] ELSE default

\* grade thresholds shifted by one: 90 itself grades B
grade_off_by_one(score) ==
    IF score > 90 THEN "A"
    ELSE IF score > 80 THEN "B"
    ELSE IF score > 70 THEN "C"
    ELSE IF score > 60 THEN "D"
    ELSE "F"

grade(score) ==
    IF score >= 90 THEN "A"
    ELSE IF score >= 80 THEN "B"
    ELSE IF score >= 70 THEN "C"
    ELSE IF score >= 60 THEN "D"
    ELSE "F"

\* a clamp that forgets the upper bound
clamp_no_hi(x, lo, hi) == Max2(lo, x)

clamp(x, lo, hi) == Max2(lo, Min2(hi, x))

SecondsPerDay == 86400

\* datetime.now(timezone.utc), in seconds since 2023-01-01T00:00:00Z: the
\* instant 2024-01-15T00:00:00Z
NowSeconds == 379 * SecondsPerDay

\* datetime.fromisoformat(s.replace('Z', '+00:00')) on the timestamps the
\* upstream payloads of this model carry: whether it parses, whether the
\* result is timezone-aware, and the instant in seconds since 2023-01-01Z
fromisoformat(s) ==
    CASE s = "2024-01-15T00:00:00Z" -> [ok |-> TRUE, aware |-> TRUE, t |-> 379 * SecondsPerDay]
      [] s = "2024-01-01T00:00:01Z" -> [ok |-> TRUE, aware |-> TRUE, t |-> 365 * SecondsPerDay + 1]
      [] s = "2024-01-01T00:00:00Z" -> [ok |-> TRUE, aware |-> TRUE, t |-> 365 * SecondsPerDay]
      [] s = "2023-01-01T00:00:00Z" -> [ok |-> TRUE, aware |-> TRUE, t |-> 0]
      [] s = "2024-01-16T12:00:00Z" -> [ok |-> TRUE, aware |-> TRUE, t |-> 380 * SecondsPerDay + 43200]
      [] s = "2024-01-01T00:00:00"  -> [ok |-> TRUE, aware |-> FALSE, t |-> 365 * SecondsPerDay]
      [] OTHER                      -> [ok |-> FALSE, aware |-> FALSE, t |-> 0]

\* ValueError from the parse and TypeError from subtracting a naive datetime
\* both end in `except Exception: return 0`; // is floor division
calc_age_days(created_at_iso) ==
    LET dt == fromisoformat(created_at_iso)
    IN  IF dt.ok /\ dt.aware THEN (NowSeconds - dt.t) \div SecondsPerDay ELSE 0

RECURSIVE SumPoints(_, _)
SumPoints(sigs, keys) ==
    IF keys = {} THEN 0
    ELSE LET k == CHOOSE x \in keys : TRUE
         IN  Get(sigs[k], "points", 0) + SumPoints(sigs, keys \ {k})

\* sum(v.get("points", 0) for v in signals.values()), then grade(int(total))
compute_score(sigs) ==
    LET total == SumPoints(sigs, DOMAIN sigs)
    IN  [total |-> total, grade |-> grade(total)]

-----------------------------------------------------------------------------
(* app/main.py: the scoring block of scan_pr                               *)

\* assoc_risk, in tenths
assoc_risk(author_assoc) ==
    CASE author_assoc = "FIRST_TIME_CONTRIBUTOR" -> 10
      [] author_assoc = "CONTRIBUTOR"            -> 7
      [] author_assoc = "NONE"                   -> 10
      [] author_assoc = "COLLABORATOR"           -> 5
      [] author_assoc = "MEMBER"                 -> 3
      [] author_assoc = "OWNER"                  -> 2
      [] OTHER                                   -> 8

\* the age signal with the comparison inverted: old PRs keep both points
age_points_inverted(age_days) == 2 - (IF age_days < 14 THEN 1 ELSE 0)

\* s9
age_points(age_days) == 2 - (IF age_days >= 14 THEN 1 ELSE 0)

\* s8 = int(3 - clamp(assoc_risk * 2, 0, 3)), computed in tenths
assoc_points(author_assoc) == TruncDiv(30 - clamp(assoc_risk(author_assoc) * 2, 0, 30), 10)

\* the raw inputs of the scoring block: a record with fields additions,
\* deletions, changed_files, sensitive_touches, secret_hits, gha_unpinned,
\* ci_failures, changes_requested, author_assoc, age_days
scan_signals(in) ==
    LET s1 == 20 - clamp(TruncDiv(in.additions + in.deletions, 200), 0, 20)
        s2 == 10 - clamp(TruncDiv(in.changed_files, 5), 0, 10)
        s3 == 20 - clamp(in.sensitive_touches * 4, 0, 20)
        s4 == 20 - clamp(in.secret_hits * 5, 0, 20)
        s5 == 10 - clamp(in.gha_unpinned * 3, 0, 10)
        s6 == 10 - clamp(in.ci_failures * 5, 0, 10)
        s7 == 5 - (IF in.changes_requested THEN 5 ELSE 0)
        s8 == assoc_points(in.author_assoc)
        s9 == age_points(in.age_days)
    IN  [size_churn |-> [additions |-> in.additions, deletions |-> in.deletions, points |-> s1],
         files_changed |-> [count |-> in.changed_files, points |-> s2],
         sensitive_paths |-> [count |-> in.sensitive_touches, points |-> s3],
         secrets_in_diff |-> [hits |-> in.secret_hits, points |-> s4],
         gha_unpinned_actions |-> [count |-> in.gha_unpinned, points |-> s5],
         ci_failures |-> [count |-> in.ci_failures, points |-> s6],
         reviews_changes_requested |-> [flag |-> in.changes_requested, points |-> s7],
         author_association |-> [value |-> in.author_assoc, points |-> s8],
         age_days |-> [value |-> in.age_days, points |-> s9]]

-----------------------------------------------------------------------------
(* Upstream payloads the model draws from                                  *)

\* files of one PR files page
MaxFiles == 5

\* reviews of one PR
MaxReviews == 2

\* check runs of one commit
MaxRuns == 2

\* files of the page analyze_pr_performance reads
MaxPerfFiles == 2

\* upstream status codes; get_json accepts ok=(200,)
Statuses == {200, 403, 404, 500}

OkStatuses == {200}

Sha1 == <<"0", "1", "2", "3", "4", "5", "6", "7", "8", "9", "a", "b", "c", "d", "e", "f", "0", "1", "2", "3", "4", "5", "6", "7", "8", "9", "a", "b", "c", "d", "e", "f", "0", "1", "2", "3", "4", "5", "6", "7">>

AwsKey == <<"A", "K", "I", "A", "A", "B", "C", "D", "E", "F", "G", "H", "I", "J", "K", "L", "M", "N", "O", "P">>

SlackToken == <<"x", "o", "x", "b", "-", "0", "1", "2", "3", "4", "5", "6", "7", "8", "9">>

WorkflowPatch ==
    Join(<< <<"@", "@", " ", "-", "1", ",", "3", " ", "+", "1", ",", "4", " ", "@", "@">>,
            <<"+", "+", "+", " ", "b", "/", ".", "g", "i", "t", "h", "u", "b", "/", "w", "o", "r", "k", "f", "l", "o", "w", "s", "/", "c", "i", ".", "y", "m", "l", " ", "u", "s", "e", "s", ":", " ", "x", "/", "y", "@", "v", "0">>,
            <<"-", " ", " ", " ", " ", " ", " ", "-", " ", "u", "s", "e", "s", ":", " ", "a", "c", "t", "i", "o", "n", "s", "/", "c", "h", "e", "c", "k", "o", "u", "t", "@", "v", "2">>,
            <<"+", " ", " ", " ", " ", " ", " ", "-", " ", "u", "s", "e", "s", ":", " ", "a", "c", "t", "i", "o", "n", "s", "/", "c", "h", "e", "c", "k", "o", "u", "t", "@", "v", "3">>,
            <<"+", " ", " ", " ", " ", " ", " ", "-", " ", "u", "s", "e", "s", ":", " ", "a", "c", "t", "i", "o", "n", "s", "/", "s", "e", "t", "u", "p", "-", "p", "y", "t", "h", "o", "n">>,
            <<"+", " ", " ", " ", " ", " ", " ", "-", " ", "u", "s", "e", "s", ":", " ", "a", "c", "t", "i", "o", "n", "s", "/", "c", "a", "c", "h", "e", "@">> \o Sha1,
            <<"+", " ", " ", " ", " ", " ", " ", " ", " ", "r", "u", "n", ":", " ", "e", "c", "h", "o", " ", "h", "i">> >>, <<"\n">>)

EnvPatch ==
    Join(<< <<"+", "A", "W", "S", "_", "K", "E", "Y", "=">> \o AwsKey \o <<" ", "S", "L", "A", "C", "K", "=">> \o SlackToken,
            <<"-", "O", "L", "D", "_", "K", "E", "Y", "=">> \o AwsKey,
            <<"+", "+", "+", " ">> \o AwsKey,
            <<"+", "-", "-", "-", "-", "-", "B", "E", "G", "I", "N", " ", "R", "S", "A", " ", "P", "R", "I", "V", "A", "T", "E", " ", "K", "E", "Y", "-", "-", "-", "-", "-">>,
            <<"+", "t", "o", "k", "e", "n", ":", " ">> \o SlackToken,
            <<"+", "p", "l", "a", "i", "n", " ", "=", " ", "1">> >>, <<"\n">>)

\* one entry of the files payload: filename and patch (None when the upstream
\* sends no patch)
FileCatalogue ==
    << [filename |-> <<"s", "r", "c", "/", "a", "p", "p", ".", "p", "y">>, patch |-> <<"+", "x", " ", "=", " ", "1", "\n", "-", "y", " ", "=", " ", "2">>],
       [filename |-> <<".", "g", "i", "t", "h", "u", "b", "/", "w", "o", "r", "k", "f", "l", "o", "w", "s", "/", "c", "i", ".", "y", "m", "l">>, patch |-> WorkflowPatch],
       [filename |-> <<"c", "o", "n", "f", "i", "g", "/", "p", "r", "o", "d", ".", "e", "n", "v">>, patch |-> EnvPatch],
       [filename |-> <<"d", "e", "p", "l", "o", "y", "/", "D", "O", "C", "K", "E", "R", "F", "I", "L", "E">>, patch |-> None],
       [filename |-> <<"p", "a", "c", "k", "a", "g", "e", ".", "j", "s", "o", "n">>, patch |-> <<"+", " ", " ", "\"", "l", "e", "f", "t", "-", "p", "a", "d", "\"", ":", " ", "\"", "1", ".", "0", ".", "0", "\"">>] >>

FileIds == 1..Len(FileCatalogue)

ReviewStates == {"APPROVED", "CHANGES_REQUESTED", "COMMENTED"}

\* check-run conclusions; "null" stands for a run still in progress
Conclusions == {"success", "failure", "timed_out", "action_required", "cancelled", "null"}

CreatedAtValues ==
    {"2024-01-15T00:00:00Z", "2024-01-01T00:00:01Z", "2024-01-01T00:00:00Z",
     "2023-01-01T00:00:00Z", "2024-01-16T12:00:00Z", "2024-01-01T00:00:00",
     "yesterday", ""}

AssocValues ==
    {"OWNER", "MEMBER", "COLLABORATOR", "CONTRIBUTOR", "FIRST_TIME_CONTRIBUTOR",
     "NONE", "MANNEQUIN"}

\* d without key k
Drop(d, k) == [x \in DOMAIN d \ {k} |-> d[x]]

\* the PR of the end-to-end example: nothing changed, owner, opened today
CleanPR ==
    [head |-> [sha |-> Sha1], created_at |-> "2024-01-15T00:00:00Z",
     author_association |-> "OWNER", changed_files |-> 0, additions |-> 0,
     deletions |-> 0]

\* PR detail payloads: the clean PR, the clean PR with its size, its author
\* association, its creation time or its head changed, and a PR bad in all
\* of them
PRDetails ==
    {[CleanPR EXCEPT !.additions = a, !.deletions = d] :
        a \in {0, 150, 1000000}, d \in {0, 50}}
    \cup {[CleanPR EXCEPT !.changed_files = c] : c \in {5, 60}}
    \cup {[CleanPR EXCEPT !.author_association = a] : a \in AssocValues}
    \cup {Drop(CleanPR, "author_association")}
    \cup {[CleanPR EXCEPT !.created_at = c] : c \in CreatedAtValues}
    \cup {Drop(CleanPR, "created_at")}
    \cup {Drop(CleanPR, "head"), [CleanPR EXCEPT !.head = [ref |-> <<"m", "a", "i", "n">>]],
          [CleanPR EXCEPT !.head = [sha |-> <<>>]]}
    \cup {[head |-> [sha |-> Sha1], created_at |-> "2023-01-01T00:00:00Z",
           author_association |-> "FIRST_TIME_CONTRIBUTOR", changed_files |-> 60,
           additions |-> 1000000, deletions |-> 50]}

-----------------------------------------------------------------------------
(* app/github.py and the scan_pr handler of app/main.py                    *)

NoPayload == [none |-> TRUE]

NoResp == [kind |-> "none"]

NoMetrics == [none |-> TRUE]

NoAnalyses == [none |-> TRUE]

\* get_json with the check inverted to "any status below 500 is fine"
get_json_raises_5xx_only(status) == status >= 500

\* get_json: `if r.status_code not in ok: raise HTTPException(502, ...)`
get_json_raises(status) == status \notin OkStatuses

\* the HTTPException the framework turns into the response
GatewayError(status) == [kind |-> "error", status_code |-> 502, upstream |-> status]

\* prj.get("head", {}).get("sha")
head_sha_of(p) == Get(Get(p, "head", <<>>), "sha", None)

\* the guard of the check-runs call, dropped: the call is always made
checks_wanted_always(sha) == TRUE

\* `if head_sha:`
checks_wanted(sha) == Truthy(sha)

\* the added workflow lines of a patch that reference an unpinned action
RECURSIVE UnpinnedLines(_, _)
UnpinnedLines(ls, k) ==
    IF k > Len(ls) THEN 0
    ELSE (IF /\ startswith(ls[k], <<"+">>)
             /\ ~startswith(ls[k], <<"+", "+", "+">>)
             /\ contains(ls[k], <<"u", "s", "e", "s", ":">>)
             /\ action_unpinned(ls[k])
          THEN 1 ELSE 0) + UnpinnedLines(ls, k + 1)

\* what one iteration of `for f in files` adds to
\* <<sensitive_touches, secret_hits, gha_unpinned>>
file_counts(f) ==
    LET filename == Get(f, "filename", <<>>)
        p == Get(f, "patch", <<>>)
        text == IF Truthy(p) THEN p ELSE <<>>
    IN  << IF touched_sensitive_path(filename) THEN 1 ELSE 0,
           find_secrets_in_diff_patch(text),
           IF startswith(filename, <<".", "g", "i", "t", "h", "u", "b", "/", "w", "o", "r", "k", "f", "l", "o", "w", "s", "/">>)
           THEN UnpinnedLines(splitlines(text), 1) ELSE 0 >>

\* file_counts of every catalogue file
FileStats ==
    << file_counts(FileCatalogue[1]), file_counts(FileCatalogue[2]),
       file_counts(FileCatalogue[3]), file_counts(FileCatalogue[4]),
       file_counts(FileCatalogue[5]) >>

\* `concl in ("failure", "timed_out", "action_required", "cancelled")`
is_ci_failure(concl) == concl \in {"failure", "timed_out", "action_required", "cancelled"}

\* the raw inputs of the scoring block, from the handler's locals
scan_inputs(p, sens, secrets, unp, ci, cr) ==
    [additions |-> Get(p, "additions", 0),
     deletions |-> Get(p, "deletions", 0),
     changed_files |-> Get(p, "changed_files", 0),
     sensitive_touches |-> sens,
     secret_hits |-> secrets,
     gha_unpinned |-> unp,
     ci_failures |-> ci,
     changes_requested |-> cr,
     author_assoc |-> Get(p, "author_association", "NONE"),
     age_days |-> calc_age_days(Get(p, "created_at", ""))]

\* lines 101-149: age, signals, compute_score and the JSON body
scan_response(p, sens, secrets, unp, ci, cr) ==
    LET sigs == scan_signals(scan_inputs(p, sens, secrets, unp, ci, cr))
        sc == compute_score(sigs)
    IN  [kind |-> "ok", status_code |-> 200, score |-> sc.total, grade |-> sc.grade,
         signals |-> sigs]

\* GET /api/scan-pr arrives: the PR detail call is issued
ScanRequest ==
    /\ pc = "idle"
    /\ handler' = "scan_pr"
    /\ calls' = <<"pulls">>
    /\ pc' = "await_pulls"
    /\ UNCHANGED <<returned, last_status, prj, resp, scanLocals, perfLocals, pureVars>>

\* PR detail returns 200: read it and issue the files call
ScanDetailOk ==
    /\ handler = "scan_pr" /\ pc = "await_pulls"
    /\ \E status \in Statuses : ~get_json_raises(status) /\ last_status' = status
    /\ \E p \in PRDetails : prj' = p
    /\ returned' = returned + 1
    /\ calls' = Append(calls, "files")
    /\ pc' = "await_files"
    /\ UNCHANGED <<handler, resp, scanLocals, perfLocals, pureVars>>

\* the files page returns 200: the counters start at 0
ScanFilesOk ==
    /\ handler = "scan_pr" /\ pc = "await_files"
    /\ \E status \in Statuses : ~get_json_raises(status) /\ last_status' = status
    /\ returned' = returned + 1
    /\ sensitive_touches' = 0 /\ secret_hits' = 0 /\ gha_unpinned' = 0
    /\ files_seen' = 0
    /\ pc' = "for_files"
    /\ UNCHANGED <<handler, calls, prj, changes_requested, runs_seen, ci_failures, resp, perfLocals, pureVars>>

\* one iteration of `for f in files`, on the next file of the page
ScanFile ==
    /\ handler = "scan_pr" /\ pc = "for_files"
    /\ files_seen < MaxFiles
    /\ \E i \in FileIds :
          /\ sensitive_touches' = sensitive_touches + FileStats[i][1]
          /\ secret_hits' = secret_hits + FileStats[i][2]
          /\ gha_unpinned' = gha_unpinned + FileStats[i][3]
    /\ files_seen' = files_seen + 1
    /\ UNCHANGED <<handler, pc, calls, returned, last_status, prj, changes_requested, runs_seen, ci_failures, resp, perfLocals, pureVars>>

\* the page is exhausted: issue the reviews call
ScanFilesEnd ==
    /\ handler = "scan_pr" /\ pc = "for_files"
    /\ calls' = Append(calls, "reviews")
    /\ pc' = "await_reviews"
    /\ UNCHANGED <<handler, returned, last_status, prj, resp, scanLocals, perfLocals, pureVars>>

\* reviews return 200: with a head SHA the check-runs call is issued,
\* without one the handler goes on to score with ci_failures = 0
ScanReviewsOk ==
    /\ handler = "scan_pr" /\ pc = "await_reviews"
    /\ \E status \in Statuses : ~get_json_raises(status) /\ last_status' = status
    /\ returned' = returned + 1
    /\ ci_failures' = 0
    /\ \E reviews \in SeqsUpTo(ReviewStates, MaxReviews) :
          LET cr == \E k \in 1..Len(reviews) : reviews[k] = "CHANGES_REQUESTED"
          IN  /\ changes_requested' = cr
              /\ IF checks_wanted(head_sha_of(prj))
                 THEN /\ calls' = Append(calls, "check-runs")
                      /\ pc' = "await_check_runs"
                      /\ resp' = resp
                 ELSE /\ calls' = calls
                      /\ pc' = "done"
                      /\ resp' = scan_response(prj, sensitive_touches, secret_hits,
                                               gha_unpinned, 0, cr)
    /\ UNCHANGED <<handler, prj, files_seen, sensitive_touches, secret_hits, gha_unpinned, runs_seen, perfLocals, pureVars>>

\* check-runs return 200
ScanChecksOk ==
    /\ handler = "scan_pr" /\ pc = "await_check_runs"
    /\ \E status \in Statuses : ~get_json_raises(status) /\ last_status' = status
    /\ returned' = returned + 1
    /\ runs_seen' = 0
    /\ pc' = "for_runs"
    /\ UNCHANGED <<handler, calls, prj, files_seen, sensitive_touches, secret_hits, gha_unpinned, changes_requested, ci_failures, resp, perfLocals, pureVars>>

\* one iteration of `for r in runs`
ScanRun ==
    /\ handler = "scan_pr" /\ pc = "for_runs"
    /\ runs_seen < MaxRuns
    /\ \E concl \in Conclusions :
          ci_failures' = ci_failures + (IF is_ci_failure(concl) THEN 1 ELSE 0)
    /\ runs_seen' = runs_seen + 1
    /\ UNCHANGED <<handler, pc, calls, returned, last_status, prj, files_seen, sensitive_touches, secret_hits, gha_unpinned, changes_requested, resp, perfLocals, pureVars>>

\* the runs are exhausted: score and respond
ScanRunsEnd ==
    /\ handler = "scan_pr" /\ pc = "for_runs"
    /\ resp' = scan_response(prj, sensitive_touches, secret_hits, gha_unpinned,
                             ci_failures, changes_requested)
    /\ pc' = "done"
    /\ UNCHANGED <<handler, calls, returned, last_status, prj, scanLocals, perfLocals, pureVars>>

\* any awaited call of scan_pr returns an unaccepted status: get_json raises
\* and nothing in the handler catches it
ScanUpstreamFail ==
    /\ handler = "scan_pr"
    /\ pc \in {"await_pulls", "await_files", "await_reviews", "await_check_runs"}
    /\ \E status \in Statuses :
          /\ get_json_raises(status)
          /\ last_status' = status
          /\ resp' = GatewayError(status)
    /\ pc' = "failed"
    /\ UNCHANGED <<handler, calls, returned, prj, scanLocals, perfLocals, pureVars>>

-----------------------------------------------------------------------------
(* app/main.py: the analyze_pr_performance handler                         *)

\* estimate_performance_impact; the scores are kept in hundredths.  On the
\* payloads of this model additions + deletions is a multiple of 10 and
\* changed_files a whole number, so round(.., 2) changes nothing.
estimate_performance_impact(pr_data) ==
    LET additions == Get(pr_data, "additions", 0)
        deletions == Get(pr_data, "deletions", 0)
        changed_files == Get(pr_data, "changed_files", 0)
        complexity100 == (additions + deletions) \div 10
        file_impact100 == changed_files * 10
    IN  [impact_level |->
            IF complexity100 > 200 \/ file_impact100 > 500 THEN "high"
            ELSE IF complexity100 > 100 \/ file_impact100 > 200 THEN "medium"
            ELSE "low",
         complexity_score |-> complexity100,
         file_impact_score |-> file_impact100,
         total_changes |-> additions + deletions,
         changed_files |-> changed_files]

dependency_files ==
    << <<"p", "a", "c", "k", "a", "g", "e", ".", "j", "s", "o", "n">>, <<"y", "a", "r", "n", ".", "l", "o", "c", "k">>, <<"p", "n", "p", "m", "-", "l", "o", "c", "k", ".", "y", "a", "m", "l">>, <<"r", "e", "q", "u", "i", "r", "e", "m", "e", "n", "t", "s", ".", "t", "x", "t">>,
       <<"p", "o", "e", "t", "r", "y", ".", "l", "o", "c", "k">>, <<"P", "i", "p", "f", "i", "l", "e">>, <<"p", "o", "m", ".", "x", "m", "l">>, <<"b", "u", "i", "l", "d", ".", "g", "r", "a", "d", "l", "e">>, <<"G", "e", "m", "f", "i", "l", "e">>,
       <<"G", "e", "m", "f", "i", "l", "e", ".", "l", "o", "c", "k">>, <<"c", "o", "m", "p", "o", "s", "e", "r", ".", "j", "s", "o", "n">>, <<"C", "a", "r", "g", "o", ".", "t", "o", "m", "l">>, <<"g", "o", ".", "m", "o", "d">> >>

is_dependency_file(filename) ==
    \E k \in 1..Len(dependency_files) : contains(filename, dependency_files[k])

\* one entry per file whose name contains a dependency-manifest name, in
\* page order
analyze_dependency_changes(fs) ==
    LET deps == SelectSeq(fs, LAMBDA f : is_dependency_file(Get(f, "filename", <<>>)))
    IN  [k \in 1..Len(deps) |->
            [file |-> Get(deps[k], "filename", <<>>),
             additions |-> Get(deps[k], "additions", 0),
             deletions |-> Get(deps[k], "deletions", 0),
             status |-> Get(deps[k], "status", "unknown")]]

\* the categories of file_types, in dict order, with their patterns
file_types ==
    << [category |-> "source_code",
        extensions |-> {<<".", "p", "y">>, <<".", "j", "s">>, <<".", "t", "s">>, <<".", "j", "a", "v", "a">>, <<".", "c", "p", "p">>, <<".", "c">>, <<".", "g", "o">>, <<".", "r", "s">>}],
       [category |-> "config",
        extensions |-> {<<".", "j", "s", "o", "n">>, <<".", "y", "a", "m", "l">>, <<".", "y", "m", "l">>, <<".", "t", "o", "m", "l">>, <<".", "i", "n", "i">>, <<".", "c", "o", "n", "f">>}],
       [category |-> "documentation", extensions |-> {<<".", "m", "d">>, <<".", "r", "s", "t">>, <<".", "t", "x", "t">>}],
       [category |-> "tests", extensions |-> {<<"t", "e", "s", "t", "_">>, <<"_", "t", "e", "s", "t">>, <<".", "t", "e", "s", "t", ".">>, <<"s", "p", "e", "c", ".">>}],
       [category |-> "assets",
        extensions |-> {<<".", "p", "n", "g">>, <<".", "j", "p", "g">>, <<".", "s", "v", "g">>, <<".", "c", "s", "s">>, <<".", "s", "c", "s", "s">>}] >>

\* filename.endswith(ext)
endswith(s, p) == Len(p) <= Len(s) /\ SubSeq(s, Len(s) - Len(p) + 1, Len(s)) = p

\* any(filename.endswith(ext) or any(pattern in filename ...) for ext in extensions)
in_category(filename, c) ==
    \E ext \in file_types[c].extensions :
        endswith(filename, ext) \/ \E pattern \in file_types[c].extensions : contains(filename, pattern)

\* the first category a file falls in, 0 for none (the `break`)
category_of(filename) ==
    IF \E c \in 1..Len(file_types) : in_category(filename, c)
    THEN CHOOSE c \in 1..Len(file_types) :
            in_category(filename, c) /\ \A b \in 1..(c - 1) : ~in_category(filename, b)
    ELSE 0

analyze_file_types(fs) ==
    LET count(c) == Cardinality({k \in 1..Len(fs) :
                        category_of(lower(Get(fs[k], "filename", <<>>))) = c})
    IN  [source_code |-> count(1), config |-> count(2), documentation |-> count(3),
         tests |-> count(4), assets |-> count(5), total_files |-> Len(fs)]

\* an `except:` branch that books the failed fetch as one failed check
ci_metrics_failed_counted ==
    [total_duration_ms |-> 0, success_count |-> 0, failure_count |-> 1,
     total_checks |-> 1, avg_duration_ms |-> [num |-> 0, den |-> 1]]

\* the `except:` branch of get_ci_metrics
ci_metrics_failed ==
    [total_duration_ms |-> 0, success_count |-> 0, failure_count |-> 0,
     total_checks |-> 0, avg_duration_ms |-> [num |-> 0, den |-> 1]]

RECURSIVE SumRuns(_, _, _)
SumRuns(runs, k, what) ==
    IF k > Len(runs) THEN 0
    ELSE LET run == runs[k]
             completed == Get(run, "status", "null") = "completed"
             conclusion == Get(run, "conclusion", "null")
             here == CASE what = "duration" -> IF completed THEN Get(run, "duration", 0) ELSE 0
                       [] what = "success" ->
                            IF completed /\ conclusion = "success" THEN 1 ELSE 0
                       [] what = "failure" ->
                            IF completed /\ conclusion \in {"failure", "timed_out", "cancelled"}
                            THEN 1 ELSE 0
         IN  here + SumRuns(runs, k + 1, what)

\* the `try:` branch of get_ci_metrics; avg_duration_ms is the true quotient
\* total_duration / max(len(runs), 1), kept as a fraction
ci_metrics_of(runs) ==
    [total_duration_ms |-> SumRuns(runs, 1, "duration"),
     success_count |-> SumRuns(runs, 1, "success"),
     failure_count |-> SumRuns(runs, 1, "failure"),
     total_checks |-> Len(runs),
     avg_duration_ms |-> [num |-> SumRuns(runs, 1, "duration"), den |-> Max2(Len(runs), 1)]]

\* calculate_performance_risk; risk_score is kept in tenths (complexity_score
\* is in hundredths, so complexity_score * 30 is complexity100 * 3 tenths)
calculate_performance_risk(complexity, dependency_changes, metrics, types) ==
    LET risk10 == complexity.complexity_score * 3
                  + Len(dependency_changes) * 200
                  + (IF metrics.failure_count > 0 THEN metrics.failure_count * 150 ELSE 0)
                  + (IF types.source_code > 10 THEN 100 ELSE 0)
                  + (IF types.config > 3 THEN 150 ELSE 0)
    IN  [risk_level |-> IF risk10 > 1000 THEN "high"
                        ELSE IF risk10 > 500 THEN "medium" ELSE "low",
         risk_score |-> risk10,
         factors |-> [code_complexity |-> complexity.complexity_score * 3,
                      dependency_changes |-> Len(dependency_changes) * 200,
                      ci_failures |-> metrics.failure_count * 150,
                      file_volume |-> types.source_code * 20]]

\* lines 312-319: the three analyses made before get_ci_metrics is awaited
perf_analyses(pr_data, fs) ==
    [complexity |-> estimate_performance_impact(pr_data),
     dependency_changes |-> analyze_dependency_changes(fs),
     file_types |-> analyze_file_types(fs)]

\* lines 325-367: the risk and the JSON body
perf_response(an, metrics) ==
    LET performance_risk == calculate_performance_risk(an.complexity, an.dependency_changes,
                                                       metrics, an.file_types)
    IN  [kind |-> "ok", status_code |-> 200,
         complexity_analysis |-> an.complexity,
         dependency_changes |-> an.dependency_changes,
         file_type_analysis |-> an.file_types,
         ci_metrics |-> metrics,
         performance_risk |-> performance_risk,
         summary |-> [risk_level |-> performance_risk.risk_level,
                      risk_score |-> performance_risk.risk_score,
                      recommendation |->
                         IF performance_risk.risk_level = "high" THEN "Review carefully"
                         ELSE IF performance_risk.risk_level = "medium" THEN "Standard review"
                         ELSE "Low risk"]]

\* PR detail payloads analyze_pr_performance is run on
PerfDetails ==
    {[CleanPR EXCEPT !.additions = a, !.deletions = d] :
        a \in {0, 150, 1000000}, d \in {0, 50}}
    \cup {[CleanPR EXCEPT !.changed_files = 60]}
    \cup {Drop(CleanPR, "head"), [CleanPR EXCEPT !.head = [sha |-> <<>>]]}

\* check runs of one commit, as analyze_pr_performance reads them
MaxPerfRuns == 2

\* one check run of the check-runs payload
PerfRuns ==
    {[status |-> "completed", conclusion |-> "success", duration |-> 1000],
     [status |-> "completed", conclusion |-> "failure"],
     [status |-> "completed", conclusion |-> "timed_out", duration |-> 500],
     [status |-> "in_progress", conclusion |-> "null"]}

\* POST /api/analyze-pr-performance arrives: the PR detail call is issued
PerfRequest ==
    /\ pc = "idle"
    /\ handler' = "analyze_pr_performance"
    /\ calls' = <<"pulls">>
    /\ pc' = "await_pulls"
    /\ UNCHANGED <<returned, last_status, prj, resp, scanLocals, perfLocals, pureVars>>

\* PR detail returns 200: issue the files call
PerfDetailOk ==
    /\ handler = "analyze_pr_performance" /\ pc = "await_pulls"
    /\ \E status \in Statuses : ~get_json_raises(status) /\ last_status' = status
    /\ \E p \in PerfDetails : prj' = p
    /\ returned' = returned + 1
    /\ calls' = Append(calls, "files")
    /\ pc' = "await_files"
    /\ UNCHANGED <<handler, resp, scanLocals, perfLocals, pureVars>>

\* the files page returns 200: the three analyses are pure, then
\* get_ci_metrics issues the check-runs call whatever head_sha is
PerfFilesOk ==
    /\ handler = "analyze_pr_performance" /\ pc = "await_files"
    /\ \E status \in Statuses : ~get_json_raises(status) /\ last_status' = status
    /\ \E ids \in SeqsUpTo(FileIds, MaxPerfFiles) :
          analyses' = perf_analyses(prj, [k \in 1..Len(ids) |-> FileCatalogue[ids[k]]])
    /\ returned' = returned + 1
    /\ calls' = Append(calls, "check-runs")
    /\ pc' = "await_check_runs"
    /\ UNCHANGED <<handler, prj, ci_metrics, resp, scanLocals, pureVars>>

\* check-runs return 200 inside get_ci_metrics: metrics, risk, response
PerfCiOk ==
    /\ handler = "analyze_pr_performance" /\ pc = "await_check_runs"
    /\ \E status \in Statuses : ~get_json_raises(status) /\ last_status' = status
    /\ \E runs \in SeqsUpTo(PerfRuns, MaxPerfRuns) :
          /\ ci_metrics' = ci_metrics_of(runs)
          /\ resp' = perf_response(analyses, ci_metrics_of(runs))
    /\ returned' = returned + 1
    /\ pc' = "done"
    /\ UNCHANGED <<handler, calls, prj, analyses, scanLocals, pureVars>>

\* check-runs return an unaccepted status inside get_ci_metrics: get_json
\* raises, the bare `except:` returns the zero metrics, and the handler
\* goes on to its normal response
PerfCiFail ==
    /\ handler = "analyze_pr_performance" /\ pc = "await_check_runs"
    /\ \E status \in Statuses :
          /\ get_json_raises(status)
          /\ last_status' = status
    /\ ci_metrics' = ci_metrics_failed
    /\ resp' = perf_response(analyses, ci_metrics_failed)
    /\ pc' = "done"
    /\ UNCHANGED <<handler, calls, returned, prj, analyses, scanLocals, pureVars>>

\* the PR detail or the files call returns an unaccepted status: get_json
\* raises and nothing in the handler catches it
PerfUpstreamFail ==
    /\ handler = "analyze_pr_performance"
    /\ pc \in {"await_pulls", "await_files"}
    /\ \E status \in Statuses :
          /\ get_json_raises(status)
          /\ last_status' = status
          /\ resp' = GatewayError(status)
    /\ pc' = "failed"
    /\ UNCHANGED <<handler, calls, returned, prj, scanLocals, perfLocals, pureVars>>

HttpInit ==
    /\ handler = "" /\ pc = "idle"
    /\ calls = <<>> /\ returned = 0 /\ last_status = 0
    /\ prj = NoPayload /\ analyses = NoAnalyses
    /\ files_seen = 0 /\ sensitive_touches = 0 /\ secret_hits = 0 /\ gha_unpinned = 0
    /\ changes_requested = FALSE
    /\ runs_seen = 0 /\ ci_failures = 0
    /\ ci_metrics = NoMetrics
    /\ resp = NoResp

-----------------------------------------------------------------------------
(* Direct applications of the pure functions                               *)

NoRaw == [none |-> TRUE]

NoSignals == [none |-> [none |-> TRUE]]

NoResult == [none |-> TRUE]

ScoreIdle == raw = NoRaw /\ signals = NoSignals /\ result = NoResult

PureIdle ==
    /\ patch = <<>> /\ hits = 0
    /\ line = <<>> /\ unpinned = FALSE
    /\ ScoreIdle
    /\ stage = "input"

\* lines of the patches the scanner is applied to
MaxPatchLines == 2

\* spaces that may follow a `uses:` reference
MaxPad == 1

GoogleTail34 == <<"0", "1", "2", "3", "4", "5", "6", "7", "8", "9", "a", "b", "c", "d", "e", "f", "g", "h", "i", "j", "A", "B", "C", "D", "E", "F", "G", "H", "I", "J", "_", "\\", "]", "^">>

PatchLines ==
    { <<"+">> \o AwsKey,
      <<"-">> \o AwsKey,
      <<"+", "+", "+">> \o AwsKey,
      <<"+", "+">> \o AwsKey,
      <<" ">> \o AwsKey,
      <<"+", "A", "K", "I", "A", "A", "B", "C", "D", "E", "F", "G", "H", "I", "J", "K", "L", "M", "N", "O">>,
      <<"+", "A", "K", "I", "A", "A", "B", "C", "D", "E", "F", "G", "H", "I", "J", "K", "L", "M", "N", "O", "p">>,
      <<"+", "k", "e", "y", "=">> \o AwsKey \o <<" ", "t", "o", "k", "=">> \o SlackToken,
      <<"+", "-", "-", "-", "-", "-", "B", "E", "G", "I", "N", " ", "O", "P", "E", "N", "S", "S", "H", " ", "P", "R", "I", "V", "A", "T", "E", " ", "K", "E", "Y", "-", "-", "-", "-", "-">>,
      <<"+", "-", "-", "-", "-", "-", "B", "E", "G", "I", "N", " ", "P", "G", "P", " ", "P", "R", "I", "V", "A", "T", "E", " ", "K", "E", "Y", "-", "-", "-", "-", "-">>,
      <<"-">> \o SlackToken,
      <<"+", "x", "o", "x", "b", "-", "0", "1", "2", "3", "4", "5", "6", "7", "8">>,
      <<"+", "x", "o", "x", "z", "-", "0", "1", "2", "3", "4", "5", "6", "7", "8", "9">>,
      <<"+", "A", "I", "z", "a">> \o GoogleTail34 \o <<"9">>,
      <<"+", "A", "I", "z", "a">> \o GoogleTail34 \o <<"-">>,
      <<"+", "x", " ", "=", " ", "1">>,
      <<>> }

PatchBreaks == {<<"\n">>, <<"\r", "\n">>}

\* the patches: up to MaxPatchLines lines joined by one kind of line break,
\* with or without a trailing break, and the absent patch
Patches ==
    {Join(ls, br) \o tail :
        ls \in SeqsUpTo(PatchLines, MaxPatchLines), br \in PatchBreaks, tail \in {<<>>, <<"\n">>}}
    \cup {None}

SecretsInit ==
    /\ HttpInit
    /\ patch \in Patches /\ hits = 0
    /\ line = <<>> /\ unpinned = FALSE
    /\ ScoreIdle
    /\ stage = "input"

\* hits = find_secrets_in_diff_patch(patch)
FindSecrets ==
    /\ stage = "input"
    /\ hits' = find_secrets_in_diff_patch(patch)
    /\ stage' = "done"
    /\ UNCHANGED <<httpVars, patch, line, unpinned, raw, signals, result>>

SecretsNext == FindSecrets

SpecSecrets == SecretsInit /\ [][SecretsNext]_vars

Sha1Upper == <<"0", "1", "2", "3", "4", "5", "6", "7", "8", "9", "A", "B", "C", "D", "E", "F", "0", "1", "2", "3", "4", "5", "6", "7", "8", "9", "A", "B", "C", "D", "E", "F", "0", "1", "2", "3", "4", "5", "6", "7">>

UsesHeads ==
    {<<"u", "s", "e", "s", ":", " ", "a", "c", "t", "i", "o", "n", "s", "/", "c", "h", "e", "c", "k", "o", "u", "t">>, <<"+", " ", " ", " ", " ", " ", " ", "-", " ", "u", "s", "e", "s", ":", " ", "d", "o", "c", "k", "e", "r", ":", "/", "/", "a", "l", "p", "i", "n", "e">>,
     <<"r", "u", "n", ":", " ", "e", "c", "h", "o", " ", "h", "i">>, <<"u", "s", "e", "s", ":", " ", "m", "e", "@", "h", "o", "s", "t", "/", "a", "c", "t">>, <<"U", "S", "E", "S", ":", " ", "a", "c", "t", "i", "o", "n", "s", "/", "c", "h", "e", "c", "k", "o", "u", "t">>}

UsesRefs ==
    {<<>>, <<"v", "3">>, <<"m", "a", "i", "n">>, Sha1, Sha1Upper,
     SubSeq(Sha1, 1, ShaLen - 1),
     Sha1 \o <<"9">>,
     Sha1 \o <<" ", "#", " ", "v", "3", ".", "1", ".", "0">>,
     Sha1 \o <<"-", "d", "i", "r", "t", "y">>,
     SubSeq(Sha1, 1, ShaLen - 1) \o <<"g">>,
     SubSeq(Sha1, 1, 20) \o <<" ">> \o SubSeq(Sha1, 21, ShaLen)}

Pads == {[k \in 1..n |-> " "] : n \in 0..MaxPad}

\* the lines: a head, optionally an '@' and a reference, padding on both
\* sides of the reference
UsesLines ==
    {h \o <<"@">> \o a \o r \o b : h \in UsesHeads, r \in UsesRefs, a \in Pads, b \in Pads}
    \cup UsesHeads

UnpinnedInit ==
    /\ HttpInit
    /\ patch = <<>> /\ hits = 0
    /\ line \in UsesLines /\ unpinned = FALSE
    /\ ScoreIdle
    /\ stage = "input"

\* unpinned = action_unpinned(line)
ActionUnpinned ==
    /\ stage = "input"
    /\ unpinned' = action_unpinned(line)
    /\ stage' = "done"
    /\ UNCHANGED <<httpVars, patch, hits, line, raw, signals, result>>

UnpinnedNext == ActionUnpinned

SpecUnpinned == UnpinnedInit /\ [][UnpinnedNext]_vars

\* the largest count of sensitive files, secret hits, unpinned actions or
\* failed checks the scoring block is given
MaxCount == 7

RawCounts == {0, 3, MaxCount}

AgeValues == {calc_age_days(c) : c \in CreatedAtValues}

\* raw inputs of the scoring block
RawInputs ==
    [additions : {0, 150, 1000000}, deletions : {0, 50}, changed_files : {0, 5, 60},
     sensitive_touches : RawCounts, secret_hits : RawCounts,
     gha_unpinned : {0, MaxCount}, ci_failures : {0, 1, MaxCount},
     changes_requested : BOOLEAN,
     author_assoc : {"OWNER", "COLLABORATOR", "CONTRIBUTOR", "MANNEQUIN"},
     age_days : {-2, 13, 14}]
    \cup [additions : {0}, deletions : {0}, changed_files : {0},
          sensitive_touches : {0}, secret_hits : {0}, gha_unpinned : {0},
          ci_failures : {0}, changes_requested : {FALSE},
          author_assoc : AssocValues, age_days : AgeValues]

DictKeys == {"a", "b", "c"}

\* a dict value with a "points" field, or without one
DictValues == {[points |-> n] : n \in {0, 10, 20, 59, 60}} \cup {[count |-> MaxCount]}

\* signals dicts that do not come from scan_pr
OtherDicts == UNION {[K -> DictValues] : K \in SUBSET DictKeys}

ScoreInit ==
    /\ HttpInit
    /\ patch = <<>> /\ hits = 0
    /\ line = <<>> /\ unpinned = FALSE
    /\ result = NoResult
    /\ \/ raw \in RawInputs /\ signals = NoSignals /\ stage = "input"
       \/ raw = NoRaw /\ signals \in OtherDicts /\ stage = "signals"

\* lines 115-135 of scan_pr: the nine signals
AssembleSignals ==
    /\ stage = "input"
    /\ signals' = scan_signals(raw)
    /\ stage' = "signals"
    /\ UNCHANGED <<httpVars, patch, hits, line, unpinned, raw, result>>

\* total, letter = compute_score(signals)
ComputeScore ==
    /\ stage = "signals"
    /\ result' = compute_score(signals)
    /\ stage' = "done"
    /\ UNCHANGED <<httpVars, patch, hits, line, unpinned, raw, signals>>

ScoreNext == AssembleSignals \/ ComputeScore

SpecScore == ScoreInit /\ [][ScoreNext]_vars

-----------------------------------------------------------------------------
(* The request handlers                                                    *)

Init == HttpInit /\ PureIdle

Next ==
    \/ ScanRequest
    \/ ScanDetailOk
    \/ ScanFilesOk
    \/ ScanFile
    \/ ScanFilesEnd
    \/ ScanReviewsOk
    \/ ScanChecksOk
    \/ ScanRun
    \/ ScanRunsEnd
    \/ ScanUpstreamFail
    \/ PerfRequest
    \/ PerfDetailOk
    \/ PerfFilesOk
    \/ PerfCiOk
    \/ PerfCiFail
    \/ PerfUpstreamFail

Spec == Init /\ [][Next]_vars

-----------------------------------------------------------------------------
(* Properties                                                              *)

FromScan == raw # NoRaw /\ stage \in {"signals", "done"}

\* C1: whatever the raw inputs of scan_pr's scoring block (counts however
\* large, either review flag, any author association, any age), the nine
\* point values stay in their ranges: s1 in 0..20, s2 in 0..10, s3 in 0..20,
\* s4 in 0..20, s5 in 0..10, s6 in 0..10, s7 in 0..5, s8 in 0..3, s9 in 0..2.
C1_SignalRanges ==
    FromScan =>
        /\ signals.size_churn.points \in 0..20
        /\ signals.files_changed.points \in 0..10
        /\ signals.sensitive_paths.points \in 0..20
        /\ signals.secrets_in_diff.points \in 0..20
        /\ signals.gha_unpinned_actions.points \in 0..10
        /\ signals.ci_failures.points \in 0..10
        /\ signals.reviews_changes_requested.points \in 0..5
        /\ signals.author_association.points \in 0..3
        /\ signals.age_days.points \in 0..2

\* C1 witness: signals assembled from counts far beyond what the clamps let
\* through, an unknown author association and a negative age
C1_Witness ==
    /\ FromScan
    /\ raw.additions + raw.deletions > 4000 /\ signals.size_churn.points = 0
    /\ raw.changed_files > 50 /\ signals.files_changed.points = 0
    /\ raw.sensitive_touches > 5 /\ signals.sensitive_paths.points = 0
    /\ raw.secret_hits > 4 /\ signals.secrets_in_diff.points = 0
    /\ raw.gha_unpinned > 3 /\ signals.gha_unpinned_actions.points = 0
    /\ raw.ci_failures > 2 /\ signals.ci_failures.points = 0
    /\ raw.author_assoc = "MANNEQUIN"
    /\ raw.age_days < 0

\* the request of the end-to-end example has been answered: the clean PR
\* detail, a files page with no sensitive file and no unpinned action and
\* `secrets` secret hits, no CHANGES_REQUESTED review, no failed check
CleanScanDone(secrets) ==
    /\ handler = "scan_pr" /\ pc = "done"
    /\ prj = CleanPR
    /\ sensitive_touches = 0 /\ secret_hits = secrets /\ gha_unpinned = 0
    /\ ~changes_requested
    /\ ci_failures = 0

\* C2: for the clean PR (no additions, deletions, changed files, sensitive
\* files, secrets, unpinned actions, CI failures or changes-requested review,
\* association OWNER, age 0 days) scan_pr returns score 100 and grade A.
C2_CleanPRScores100 ==
    CleanScanDone(0) => resp.score = 100 /\ resp.grade = "A"

\* the total of a signals dict, written out key by key: a key that is absent
\* or has no "points" field adds nothing
PointsOf(d, k) == IF k \in DOMAIN d /\ "points" \in DOMAIN d[k] THEN d[k].points ELSE 0

ExpectedTotal(d) ==
    PointsOf(d, "a") + PointsOf(d, "b") + PointsOf(d, "c")
    + PointsOf(d, "size_churn") + PointsOf(d, "files_changed")
    + PointsOf(d, "sensitive_paths") + PointsOf(d, "secrets_in_diff")
    + PointsOf(d, "gha_unpinned_actions") + PointsOf(d, "ci_failures")
    + PointsOf(d, "reviews_changes_requested") + PointsOf(d, "author_association")
    + PointsOf(d, "age_days")

\* C3: compute_score returns the sum of the "points" of every signal (0 for
\* a signal without "points"); the grade depends on the total alone: A from
\* 90, B for 80..89, C for 70..79, D for 60..69, F up to 59; and the total of
\* the nine signals scan_pr builds is never above 100 and never negative.
C3_ComputeScore ==
    stage = "done" /\ result # NoResult =>
        /\ result.total = ExpectedTotal(signals)
        /\ result.grade = "A" <=> result.total >= 90
        /\ result.grade = "B" <=> result.total \in 80..89
        /\ result.grade = "C" <=> result.total \in 70..79
        /\ result.grade = "D" <=> result.total \in 60..69
        /\ result.grade = "F" <=> result.total <= 59
        /\ FromScan => result.total \in 0..100

\* C3 witness: a dict with a signal that has no "points" scored exactly 80
C3_Witness ==
    /\ stage = "done" /\ result # NoResult
    /\ \E k \in DOMAIN signals : "points" \notin DOMAIN signals[k]
    /\ result.total = 80 /\ result.grade = "B"

CallOrder == <<"pulls", "files", "reviews", "check-runs">>

\* C4: scan_pr issues its upstream calls in the order PR detail, files,
\* reviews, check-runs, each at most once and each only after the one before
\* it returned successfully; check-runs is called exactly when the PR detail
\* has a non-empty head SHA (ci_failures stays 0 otherwise); and the score is
\* computed only when every call issued has returned.
C4_SequentialCalls ==
    handler = "scan_pr" =>
        /\ Len(calls) <= Len(CallOrder)
        /\ calls = SubSeq(CallOrder, 1, Len(calls))
        /\ returned \in {Len(calls) - 1, Len(calls)}
        /\ pc \in {"await_pulls", "await_files", "await_reviews", "await_check_runs"}
              => returned = Len(calls) - 1
        /\ Len(calls) = 4 => Truthy(head_sha_of(prj))
        /\ resp.kind = "ok" => pc = "done"
        /\ pc = "done" =>
              /\ returned = Len(calls)
              /\ resp.kind = "ok"
              /\ IF Truthy(head_sha_of(prj))
                 THEN Len(calls) = 4
                 ELSE Len(calls) = 3 /\ resp.signals.ci_failures.count = 0

\* C4 witness: a scan answered after all four calls, with a failed check
C4_Witness ==
    /\ handler = "scan_pr" /\ pc = "done"
    /\ calls = CallOrder /\ returned = 4
    /\ resp.signals.ci_failures.count > 0

\* an upstream response with an unaccepted status has been received
UpstreamFailed == last_status # 0 /\ last_status \notin OkStatuses

\* the failing call is the check-runs call made inside get_ci_metrics
InGetCiMetrics == handler = "analyze_pr_performance" /\ Len(calls) = 3

\* C5 as stated: in both handlers, any upstream call that returns a status
\* other than 200 ends the request with a 502 carrying the upstream status.
C5_AnyFailureIs502 ==
    UpstreamFailed => pc = "failed" /\ resp = GatewayError(last_status)

\* C5 amended: in both handlers an upstream call that returns a status
\* other than 200, except the check-runs call made inside get_ci_metrics,
\* ends the request with a 502 carrying the upstream status: it is the last
\* call of the request (no retry, no later call) and no score or analysis is
\* returned.  A failure of that check-runs call does not end the request
\* with an error.
C5_FailureIs502ExceptCiMetrics ==
    UpstreamFailed =>
        IF InGetCiMetrics
        THEN pc = "done" /\ resp.kind = "ok"
        ELSE /\ pc = "failed"
             /\ resp = GatewayError(last_status)
             /\ returned = Len(calls) - 1
             /\ calls = SubSeq(CallOrder, 1, Len(calls))

\* C5 witness: scan_pr's check-runs call came back 500 after three good calls
C5_Witness ==
    /\ handler = "scan_pr" /\ pc = "failed"
    /\ calls = CallOrder /\ returned = 3
    /\ last_status = 500 /\ resp.status_code = 502

\* the file-type bonuses of calculate_performance_risk, in tenths
TypeBonus(types) ==
    (IF types.source_code > 10 THEN 100 ELSE 0) + (IF types.config > 3 THEN 150 ELSE 0)

\* C6: in analyze_pr_performance a failed check-runs fetch inside
\* get_ci_metrics (also the one a missing head SHA leads to) does not fail the
\* endpoint: all five metrics are 0 and the normal response is returned with
\* the risk computed from failure_count = 0; a failed PR-detail or files
\* fetch is not degraded and ends in the gateway error.
C6_CiMetricsDegrade ==
    handler = "analyze_pr_performance" /\ UpstreamFailed =>
        IF Len(calls) = 3
        THEN /\ pc = "done"
             /\ ci_metrics.total_duration_ms = 0
             /\ ci_metrics.success_count = 0
             /\ ci_metrics.failure_count = 0
             /\ ci_metrics.total_checks = 0
             /\ ci_metrics.avg_duration_ms.num = 0
             /\ resp.kind = "ok" /\ resp.status_code = 200
             /\ resp.ci_metrics = ci_metrics
             /\ resp.performance_risk.factors.ci_failures = 0
             /\ resp.performance_risk.risk_score =
                   resp.complexity_analysis.complexity_score * 3
                   + Len(resp.dependency_changes) * 200
                   + TypeBonus(resp.file_type_analysis)
        ELSE pc = "failed" /\ resp = GatewayError(last_status)

\* C6 witness: the PR detail had no head, the check-runs call came back 404,
\* and the analysis was returned all the same
C6_Witness ==
    /\ handler = "analyze_pr_performance" /\ pc = "done"
    /\ head_sha_of(prj) = None
    /\ last_status = 404
    /\ resp.kind = "ok"
    /\ Len(resp.dependency_changes) > 0

\* an added line of a patch: starts with '+' but not with '+++'
IsAddedLine(s) == s # <<>> /\ s[1] = "+" /\ ~(Len(s) >= 3 /\ s[2] = "+" /\ s[3] = "+")

MatchesSomePattern(s) == \E p \in 1..Len(PATTERNS) : pat_search(PATTERNS[p], s)

\* C7: find_secrets_in_diff_patch returns the number of lines of the patch
\* that start with '+' but not '+++' and match at least one pattern: a line
\* matching several patterns counts once, removed lines and '+++' headers
\* count 0, and an empty or absent patch yields 0.
C7_CountsAddedMatchingLines ==
    stage = "done" =>
        IF patch = None \/ patch = <<>>
        THEN hits = 0
        ELSE LET ls == splitlines(patch)
             IN  hits = Cardinality({k \in 1..Len(ls) :
                                        IsAddedLine(ls[k]) /\ MatchesSomePattern(ls[k])})

\* C7 witness: a removed key line followed by an added line that matches two
\* patterns was counted as 1
C7_Witness ==
    /\ stage = "done"
    /\ patch # None
    /\ Len(splitlines(patch)) = 2
    /\ splitlines(patch)[1] = <<"-">> \o AwsKey
    /\ pat_search(1, splitlines(patch)[2]) /\ pat_search(3, splitlines(patch)[2])
    /\ hits = 1

LowerHex == {"0", "1", "2", "3", "4", "5", "6", "7", "8", "9", "a", "b", "c", "d", "e", "f"}

AnyCaseHex == LowerHex \cup {"A", "B", "C", "D", "E", "F"}

HasUses(s) == \E i \in 1..Len(s) : LitAt(s, i, <<"u", "s", "e", "s", ":">>)

HasAt(s) == \E i \in 1..Len(s) : s[i] = "@"

\* the text after the first '@', without surrounding whitespace
RefOf(s) == strip(AfterFirst(s, "@"))

C9_ThreeSecretsScore85 ==
    CleanScanDone(3) =>
        /\ resp.signals.secrets_in_diff.points = 5
        /\ resp.score = 85
        /\ resp.grade = "B"

\* values a raw count may be raised to
RaisedCounts == {1, 3, 5, MaxCount, 200, 1000000}

\* the inputs that differ from r in one respect only, and are riskier in it:
\* one count raised, changes requested where they were not, or an age of 14
\* days or more where it was less
Riskier(r) ==
    {[r EXCEPT !.additions = v] : v \in {x \in RaisedCounts : x > r.additions}}
    \cup {[r EXCEPT !.deletions = v] : v \in {x \in RaisedCounts : x > r.deletions}}
    \cup {[r EXCEPT !.changed_files = v] : v \in {x \in RaisedCounts : x > r.changed_files}}
    \cup {[r EXCEPT !.sensitive_touches = v] : v \in {x \in RaisedCounts : x > r.sensitive_touches}}
    \cup {[r EXCEPT !.secret_hits = v] : v \in {x \in RaisedCounts : x > r.secret_hits}}
    \cup {[r EXCEPT !.gha_unpinned = v] : v \in {x \in RaisedCounts : x > r.gha_unpinned}}
    \cup {[r EXCEPT !.ci_failures = v] : v \in {x \in RaisedCounts : x > r.ci_failures}}
    \cup {[r EXCEPT !.changes_requested = TRUE] : v \in {x \in {1} : ~r.changes_requested}}
    \cup {[r EXCEPT !.age_days = v] : v \in {x \in {14, 15, 379} : r.age_days < 14}}

\* A is the best grade
GradeRank(g) ==
    CASE g = "A" -> 4 [] g = "B" -> 3 [] g = "C" -> 2 [] g = "D" -> 1 [] g = "F" -> 0

\* C10: the scan_pr score is monotone in risk: with everything else fixed,
\* raising additions + deletions, changed_files, sensitive_touches,
\* secret_hits, gha_unpinned or ci_failures, requesting changes, or moving the
\* age from below 14 days to 14 or more never raises the score and never
\* improves the grade.
C10_MonotoneInRisk ==
    FromScan /\ stage = "done" =>
        \A r2 \in Riskier(raw) :
            LET sc2 == compute_score(scan_signals(r2))
            IN  /\ sc2.total <= result.total
                /\ GradeRank(sc2.grade) <= GradeRank(result.grade)

\* C10 witness: a PR of 13 days scored 80, grade B, that the same PR at 14
\* days loses: it is then graded C
C10_Witness ==
    /\ FromScan /\ stage = "done"
    /\ raw.age_days = 13
    /\ result.total = 80 /\ result.grade = "B"
    /\ [raw EXCEPT !.age_days = 14] \in Riskier(raw)
    /\ compute_score(scan_signals([raw EXCEPT !.age_days = 14])).grade = "C"

=============================================================================
